---------------------------- MODULE Spec2Model ----------------------------
(***************************************************************************)
(* A model of the storage shim (src/s3.py, class Storage) and of the       *)
(* column classification of the dashboard (src/view.py).                   *)
(*                                                                         *)
(* Strings the code inspects character by character (URIs, paths, keys)    *)
(* are sequences of one-character strings; values the code only passes on  *)
(* (credentials, region, column type names) are plain strings.             *)
(***************************************************************************)
EXTENDS Integers, Sequences, FiniteSets, TLC

VARIABLES
    self,       \* the Storage object: the fields __init__ assigns
    environ,    \* os.environ, restricted to the five AWS_* variables
    disk,       \* the local filesystem: [dirs, files]
    objects,    \* the live object store: key -> table
    call,       \* the operation last invoked, with its arguments
    ret,        \* its outcome: a returned value or a raised exception
    sdk,        \* the library calls that operation delegated to, in order
    view,       \* the dashboard: DataExplorer with its ColumnPlots
    before,     \* history: self, disk and objects as that operation found them
    nops        \* the number of operations invoked so far

vars == <<self, environ, disk, objects, call, ret, sdk, view, before, nops>>

None == "None"

(***************************************************************************)
(* Bounds of the model.                                                    *)
(***************************************************************************)
\* URIs given to get_arrow_path are concatenations of at most MaxChunks chunks.
MaxChunks == 3
\* Tables of the dashboard have at most MaxCols columns.
MaxCols == 2
\* A behaviour of Spec invokes at most MaxOps operations.
MaxOps == 2

(***************************************************************************)
(* Python's str operations, on sequences of characters.                    *)
(***************************************************************************)
\* str.startswith
StartsWith(s, p) ==
    /\ Len(s) >= Len(p)
    /\ SubSeq(s, 1, Len(p)) = p

\* str.endswith
EndsWith(s, p) ==
    /\ Len(s) >= Len(p)
    /\ SubSeq(s, Len(s) - Len(p) + 1, Len(s)) = p

\* s[n:]
Drop(s, n) == SubSeq(s, n + 1, Len(s))

\* sub in s
Contains(s, sub) ==
    \E i \in 0..(Len(s) - Len(sub)) : SubSeq(s, i + 1, i + Len(sub)) = sub

\* str.replace(old, ""): every non-overlapping occurrence, left to right
RECURSIVE Remove(_, _)
Remove(s, old) ==
    IF s = <<>> THEN <<>>
    ELSE IF StartsWith(s, old) THEN Remove(Drop(s, Len(old)), old)
    ELSE <<Head(s)>> \o Remove(Tail(s), old)

\* str.lstrip(ch)
RECURSIVE LStrip(_, _)
LStrip(s, ch) ==
    IF s # <<>> /\ Head(s) = ch THEN LStrip(Tail(s), ch) ELSE s

\* str.rstrip(ch)
RECURSIVE RStrip(_, _)
RStrip(s, ch) ==
    IF s # <<>> /\ s[Len(s)] = ch THEN RStrip(SubSeq(s, 1, Len(s) - 1), ch) ELSE s

\* str.rfind(ch) + 1: the length of the prefix ending at the last ch, 0 if none
RECURSIVE RFindEnd(_, _)
RFindEnd(s, ch) ==
    IF s = <<>> THEN 0
    ELSE IF s[Len(s)] = ch THEN Len(s)
    ELSE RFindEnd(SubSeq(s, 1, Len(s) - 1), ch)

\* str.split(ch)
RECURSIVE Split(_, _)
Split(s, ch) ==
    LET i == CHOOSE j \in 1..(Len(s) + 1) :
                 /\ j = Len(s) + 1 \/ s[j] = ch
                 /\ \A k \in 1..(j - 1) : s[k] # ch
    IN  IF i = Len(s) + 1 THEN <<s>>
        ELSE <<SubSeq(s, 1, i - 1)>> \o Split(Drop(s, i), ch)

\* ch.join(parts)
RECURSIVE Join(_, _)
Join(parts, ch) ==
    IF parts = <<>> THEN <<>>
    ELSE IF Len(parts) = 1 THEN parts[1]
    ELSE parts[1] \o <<ch>> \o Join(Tail(parts), ch)

\* the concatenation of a sequence of strings
RECURSIVE Flatten(_)
Flatten(ss) == IF ss = <<>> THEN <<>> ELSE Head(ss) \o Flatten(Tail(ss))

(***************************************************************************)
(* posixpath                                                               *)
(***************************************************************************)
\* os.path.join(a, b)
OsPathJoin(a, b) ==
    IF StartsWith(b, <<"/">>) THEN b
    ELSE IF a = <<>> \/ EndsWith(a, <<"/">>) THEN a \o b
    ELSE a \o <<"/">> \o b

\* os.path.dirname(p)
OsPathDirname(p) ==
    LET head == SubSeq(p, 1, RFindEnd(p, "/"))
    IN  IF head # <<>> /\ RStrip(head, "/") # <<>> THEN RStrip(head, "/") ELSE head

\* the components os.path.normpath keeps: "" and "." go, ".." takes one back
RECURSIVE NormComps(_, _, _)
NormComps(comps, kept, rooted) ==
    IF comps = <<>> THEN kept
    ELSE LET c == Head(comps)
             rest == Tail(comps)
         IN  IF c = <<>> \/ c = <<".">> THEN NormComps(rest, kept, rooted)
             ELSE IF c # <<".", ".">> THEN NormComps(rest, Append(kept, c), rooted)
             ELSE IF kept # <<>> /\ kept[Len(kept)] # <<".", ".">>
                  THEN NormComps(rest, SubSeq(kept, 1, Len(kept) - 1), rooted)
             ELSE IF rooted THEN NormComps(rest, kept, rooted)
             ELSE NormComps(rest, Append(kept, c), rooted)

\* os.path.normpath(p)
OsPathNormpath(p) ==
    IF p = <<>> THEN <<".">>
    ELSE LET slashes == IF ~StartsWith(p, <<"/">>) THEN 0
                        ELSE IF StartsWith(p, <<"/", "/">>) /\ ~StartsWith(p, <<"/", "/", "/">>)
                             THEN 2 ELSE 1
             body == Join(NormComps(Split(p, "/"), <<>>, slashes > 0), "/")
             lead == [i \in 1..slashes |-> "/"]
         IN  IF lead \o body = <<>> THEN <<".">> ELSE lead \o body

\* the process's home directory and working directory
HOME == <<"/", "h">>
CWD == <<"/", "w">>

\* os.path.expanduser(p), for the current user
OsPathExpanduser(p) ==
    IF ~StartsWith(p, <<"~">>) THEN p
    ELSE IF Len(p) = 1 \/ p[2] = "/" THEN (IF RStrip(HOME, "/") = <<>> THEN <<"/">> ELSE RStrip(HOME, "/")) \o Drop(p, 1)
    ELSE p

\* os.path.abspath(p)
OsPathAbspath(p) ==
    OsPathNormpath(IF StartsWith(p, <<"/">>) THEN p ELSE OsPathJoin(CWD, p))

(***************************************************************************)
(* Storage: construction                                                   *)
(***************************************************************************)
DefaultRegion == "us-east-1"
DefaultLocalS3Dir == <<"~">>

\* Storage.__init__, the assignments of its fields
StorageFields(profile_name, access_key, secret_key, endpoint_url, region_name, verify_ssl, local_s3, local_s3_dir) ==
    [profile_name |-> profile_name,
     access_key   |-> access_key,
     secret_key   |-> secret_key,
     endpoint_url |-> endpoint_url,
     region_name  |-> region_name,
     verify_ssl   |-> verify_ssl,
     local_s3     |-> local_s3,
     local_s3_dir |-> OsPathAbspath(OsPathExpanduser(local_s3_dir)),
     s3_fs        |-> IF local_s3 THEN "LocalFileSystem" ELSE "S3FileSystem"]

(***************************************************************************)
(* Storage: paths                                                          *)
(***************************************************************************)
Scheme == <<"s", "3", ":", "/", "/">>

\* a variant of is_s3_path that looks for the scheme anywhere in the path
\* (str.__contains__ in place of str.startswith)
IsS3PathAnywhere(path) == Contains(path, Scheme)
\* Storage.is_s3_path
is_s3_path(path) == StartsWith(path, Scheme)

Returned(v) == [kind |-> "return", value |-> v]
Raised(exc, msg) == [kind |-> "raise", exc |-> exc, msg |-> msg]

\* the message of get_arrow_path's ValueError: the f-string around the URI
InvalidUriMessage(s3_uri) ==
    <<"Invalid URI: '">> \o s3_uri
        \o <<"'. Storage interface strictly requires 's3://' prefix to ensure environment-agnostic path management.">>

\* a variant of raw_path without the lstrip("/")
RawPathNoLStrip(s3_uri) == Remove(s3_uri, Scheme)
\* raw_path of get_arrow_path
RawPath(s3_uri) == LStrip(Remove(s3_uri, Scheme), "/")

\* Storage.get_arrow_path
get_arrow_path(this, s3_uri) ==
    IF ~is_s3_path(s3_uri) THEN Raised("ValueError", InvalidUriMessage(s3_uri))
    ELSE IF this.local_s3 THEN Returned(OsPathJoin(this.local_s3_dir, RawPath(s3_uri)))
    ELSE Returned(RawPath(s3_uri))


(***************************************************************************)
(* Tables.  A table is [schema, rows]: schema a sequence of <<name, type>>, *)
(* rows a sequence of value tuples.  Column names and string values are    *)
(* character sequences; a null is None.                                    *)
(***************************************************************************)
ColNames(schema) == [i \in 1..Len(schema) |-> schema[i][1]]
ColIndex(schema, name) == CHOOSE i \in 1..Len(schema) : schema[i][1] = name
ColType(schema, name) == schema[ColIndex(schema, name)][2]

\* DataFrame.to_arrow: the Arrow type of each polars type
ArrowType(dtype) ==
    CASE dtype = "Int64" -> "int64"
      [] dtype = "Int32" -> "int32"
      [] dtype = "String" -> "large_string"
      [] OTHER -> dtype
ToArrow(df) ==
    [schema |-> [i \in 1..Len(df.schema) |-> <<df.schema[i][1], ArrowType(df.schema[i][2])>>],
     rows |-> df.rows]

\* the polars type of each Arrow type, as collect() builds the DataFrame
PolarsType(atype) ==
    CASE atype = "int64" -> "Int64"
      [] atype = "int32" -> "Int32"
      [] atype \in {"large_string", "string"} -> "String"
      [] OTHER -> atype
FromArrow(t) ==
    [schema |-> [i \in 1..Len(t.schema) |-> <<t.schema[i][1], PolarsType(t.schema[i][2])>>],
     rows |-> t.rows]

Digits == <<"0", "1", "2", "3", "4", "5", "6", "7", "8", "9">>
IsDigit(c) == \E i \in 1..10 : Digits[i] = c
DigitValue(c) == (CHOOSE i \in 1..10 : Digits[i] = c) - 1

\* str(n) for n >= 0
RECURSIVE IntToStr(_)
IntToStr(n) ==
    IF n < 10 THEN <<Digits[n + 1]>> ELSE IntToStr(n \div 10) \o <<Digits[(n % 10) + 1]>>

\* int(s) for a string of digits
RECURSIVE StrToInt(_)
StrToInt(s) ==
    IF Len(s) = 1 THEN DigitValue(s[1])
    ELSE 10 * StrToInt(SubSeq(s, 1, Len(s) - 1)) + DigitValue(s[Len(s)])

IsIntText(s) == s # <<>> /\ \A i \in 1..Len(s) : IsDigit(s[i])

\* the text of a partition value in a folder name
FormatValue(val, atype) == IF atype \in {"int64", "int32"} THEN IntToStr(val) ELSE val


(***************************************************************************)
(* Values of the variables an operation leaves out.                        *)
(***************************************************************************)
EnvNames == {"AWS_PROFILE", "AWS_ACCESS_KEY_ID", "AWS_SECRET_ACCESS_KEY", "AWS_ENDPOINT_URL", "AWS_DEFAULT_REGION"}
NoEnviron == [n \in EnvNames |-> None]
NoFiles == [p \in {} |-> None]
NoCall == [op |-> None]
NoRet == [kind |-> None]
NoView == [df |-> None]
NoBefore == [self |-> None]

\* a Storage built by its constructor with the given emulation arguments
NewStorage(local_s3, local_s3_dir) ==
    StorageFields(None, None, None, None, DefaultRegion, TRUE, local_s3, local_s3_dir)

(***************************************************************************)
(* SpecPath: get_arrow_path on a constructed Storage.                      *)
(***************************************************************************)
\* the pieces URIs are put together from
UriChunks == {Scheme, <<"s", "3", ":">>, <<"/">>, <<"a">>}
ChunkSeqs == UNION {[1..n -> UriChunks] : n \in 0..MaxChunks}
UriInputs == {Flatten(cs) : cs \in ChunkSeqs}
\* the local_s3_dir arguments: the default, a directory with a trailing
\* separator, a relative directory, the filesystem root
LocalS3DirInputs == {DefaultLocalS3Dir, <<"/", "r", "/">>, <<"e">>, <<"/">>}

InitPath ==
    /\ self \in {NewStorage(l, d) : l \in BOOLEAN, d \in LocalS3DirInputs}
    /\ environ = NoEnviron
    /\ disk = [dirs |-> {<<"/">>}, files |-> NoFiles]
    /\ objects = NoFiles
    /\ call = NoCall
    /\ ret = NoRet
    /\ sdk = <<>>
    /\ view = NoView
    /\ before = NoBefore
    /\ nops = 0

GetArrowPath(s3_uri) ==
    /\ call' = [op |-> "get_arrow_path", uri |-> s3_uri]
    /\ ret' = get_arrow_path(self, s3_uri)
    /\ UNCHANGED <<self, environ, disk, objects, sdk, view, before, nops>>

NextPath == \E u \in UriInputs : GetArrowPath(u)

SpecPath == InitPath /\ [][NextPath]_vars

\* the claims' own reading of "starts with the scheme prefix"
HasScheme(u) == Len(u) >= 5 /\ \A i \in 1..5 : u[i] = Scheme[i]
PathCalled == call.op = "get_arrow_path"

\* C1: a URI that does not start with "s3://" makes get_arrow_path raise
\* ValueError with a message that contains the URI, whether local_s3 is
\* true or false; nothing is returned.
C1_InvalidUriRaises ==
    (PathCalled /\ ~HasScheme(call.uri)) =>
        /\ ret.kind = "raise"
        /\ ret.exc = "ValueError"
        /\ Contains(ret.msg, call.uri)

C1_Witness ==
    /\ PathCalled
    /\ ~HasScheme(call.uri)
    /\ Contains(call.uri, Scheme)
    /\ self.local_s3
    /\ ret.kind = "raise"

\* C2 (as claimed): without emulation, a URI that starts with "s3://" resolves
\* to the URI less its first five characters and less the separators that
\* then lead it; a later "s3://" stays in the key.
C2_StripsOnlyLeadingScheme ==
    (PathCalled /\ HasScheme(call.uri) /\ ~self.local_s3) =>
        /\ ret.kind = "return"
        /\ ret.value = LStrip(Drop(call.uri, 5), "/")

\* C3: with emulation, a URI that starts with "s3://" resolves to an absolute
\* path made of local_s3_dir, a separator where local_s3_dir does not end in
\* one, and the key the same URI resolves to without emulation.
C3_EmulationUnderRoot ==
    (PathCalled /\ HasScheme(call.uri) /\ self.local_s3) =>
        LET key == get_arrow_path([self EXCEPT !.local_s3 = FALSE], call.uri).value
            root == self.local_s3_dir
        IN  /\ ret.kind = "return"
            /\ ret.value[1] = "/"
            /\ StartsWith(ret.value, root)
            /\ Drop(ret.value, Len(root)) \in {key, <<"/">> \o key}
            /\ Len(ret.value) = Len(root) + Len(key) + (IF root[Len(root)] = "/" THEN 0 ELSE 1)

C3_Witness ==
    /\ PathCalled
    /\ self.local_s3
    /\ StartsWith(call.uri, Scheme \o <<"/">>)
    /\ ret.kind = "return"
    /\ Len(ret.value) > Len(self.local_s3_dir) + 1

(***************************************************************************)
(* The two filesystems behind Storage.s3_fs.  "LocalFileSystem" is the     *)
(* disk: directories exist on their own and a file needs its parent.       *)
(* "S3FileSystem" is the object store: a flat map from key to object, a    *)
(* directory being no more than a common key prefix.  A Parquet file is    *)
(* held as the Arrow table it stores.                                      *)
(***************************************************************************)
Ascii ==
    [c \in {"-", ".", "/", "0", "1", "2", "3", "4", "5", "6", "7", "8", "9", ":", "="} |->
        CASE c = "-" -> 45 [] c = "." -> 46 [] c = "/" -> 47 [] c = ":" -> 58
          [] c = "=" -> 61 [] OTHER -> 48 + DigitValue(c)]
    @@ [c \in {"a", "b", "d", "e", "h", "k", "l", "p", "q", "r", "s", "t", "u", "v", "w", "x", "y", "z"} |->
        CASE c = "a" -> 97 [] c = "b" -> 98 [] c = "d" -> 100 [] c = "e" -> 101
          [] c = "h" -> 104 [] c = "k" -> 107 [] c = "l" -> 108 [] c = "p" -> 112
          [] c = "q" -> 113 [] c = "r" -> 114 [] c = "s" -> 115 [] c = "t" -> 116
          [] c = "u" -> 117 [] c = "v" -> 118 [] c = "w" -> 119 [] c = "x" -> 120
          [] c = "y" -> 121 [] OTHER -> 122]

\* a < b, as strings compare
RECURSIVE StrLess(_, _)
StrLess(a, b) ==
    IF b = <<>> THEN FALSE
    ELSE IF a = <<>> THEN TRUE
    ELSE IF Head(a) # Head(b) THEN Ascii[Head(a)] < Ascii[Head(b)]
    ELSE StrLess(Tail(a), Tail(b))

\* sorted(paths)
RECURSIVE SortPaths(_)
SortPaths(S) ==
    IF S = {} THEN <<>>
    ELSE LET m == CHOOSE x \in S : \A y \in S \ {x} : StrLess(x, y)
         IN  <<m>> \o SortPaths(S \ {m})

\* a directory and the directories above it
DirChain(d) ==
    {<<"/">>} \cup {SubSeq(d, 1, i) : i \in {j \in 1..Len(d) : j = Len(d) \/ d[j + 1] = "/"}}

\* the files of filesystem fs
FsFiles(fs, dk, ob) == IF fs = "LocalFileSystem" THEN dk.files ELSE ob

\* FileSystem.get_file_info(path).type
FsFileType(fs, dk, ob, path) ==
    IF path \in DOMAIN FsFiles(fs, dk, ob) THEN "File"
    ELSE IF fs = "LocalFileSystem" /\ path \in dk.dirs THEN "Directory"
    ELSE IF fs = "S3FileSystem" /\ \E p \in DOMAIN ob : StartsWith(p, path \o <<"/">>) THEN "Directory"
    ELSE "NotFound"

\* the files below a directory, at any depth
FsFilesUnder(fs, dk, ob, dir) ==
    {p \in DOMAIN FsFiles(fs, dk, ob) : StartsWith(p, dir \o <<"/">>)}

Store(dk, ob, exc) == [disk |-> dk, objects |-> ob, exc |-> exc]

\* os.makedirs(d, exist_ok=True), on the disk
os_makedirs(dk, ob, d) ==
    IF d \in DOMAIN dk.files THEN Store(dk, ob, "FileExistsError")
    ELSE IF \E p \in DirChain(d) : p \in DOMAIN dk.files THEN Store(dk, ob, "NotADirectoryError")
    ELSE Store([dk EXCEPT !.dirs = @ \cup DirChain(d)], ob, None)

\* writing one file: the disk needs the parent directory, the object store
\* takes any key
FsPutFile(fs, dk, ob, path, tbl) ==
    IF fs = "S3FileSystem" THEN Store(dk, (path :> tbl) @@ ob, None)
    ELSE IF path \in dk.dirs THEN Store(dk, ob, "IsADirectoryError")
    ELSE IF OsPathDirname(path) \notin dk.dirs THEN Store(dk, ob, "FileNotFoundError")
    ELSE Store([dk EXCEPT !.files = (path :> tbl) @@ @], ob, None)

\* pyarrow.parquet.write_table(table, path, filesystem=fs)
pq_write_table(fs, dk, ob, table, path) == FsPutFile(fs, dk, ob, path, table)

\* polars.DataFrame.write_parquet(path): one file on the disk
df_write_parquet(dk, ob, df, path) == FsPutFile("LocalFileSystem", dk, ob, path, ToArrow(df))

(***************************************************************************)
(* pyarrow.dataset.write_dataset with hive partitioning,                   *)
(* basename_template "part-{i}.parquet" and "overwrite_or_ignore".         *)
(***************************************************************************)
KeyOf(schema, cols, row) == [i \in 1..Len(cols) |-> row[ColIndex(schema, cols[i])]]

\* the partition keys of a table, in the order of their first rows
RECURSIVE KeysInOrder(_, _, _, _)
KeysInOrder(schema, cols, rows, seen) ==
    IF rows = <<>> THEN seen
    ELSE LET key == KeyOf(schema, cols, Head(rows))
         IN  KeysInOrder(schema, cols, Tail(rows),
                         IF \E i \in 1..Len(seen) : seen[i] = key THEN seen ELSE Append(seen, key))

\* a variant of the partition folder that names it by the values alone
\* (the directory flavor in place of the hive flavor)
HiveDirPlain(schema, cols, key) ==
    Join([i \in 1..Len(cols) |-> FormatValue(key[i], ColType(schema, cols[i]))], "/")
\* the folder of a partition key: one "column=value" segment per column
HiveDir(schema, cols, key) ==
    Join([i \in 1..Len(cols) |-> cols[i] \o <<"=">> \o FormatValue(key[i], ColType(schema, cols[i]))], "/")

\* the positions of the columns a data file keeps: all but the partition columns
RECURSIVE KeptCols(_, _, _)
KeptCols(schema, cols, i) ==
    IF i > Len(schema) THEN <<>>
    ELSE (IF \E j \in 1..Len(cols) : cols[j] = schema[i][1] THEN <<>> ELSE <<i>>)
             \o KeptCols(schema, cols, i + 1)

Project(seq, idx) == [i \in 1..Len(idx) |-> seq[idx[i]]]

\* the rows of one partition, without the partition columns
PartitionRows(table, cols, key) ==
    LET mine == SelectSeq(table.rows, LAMBDA r : KeyOf(table.schema, cols, r) = key)
        idx == KeptCols(table.schema, cols, 1)
    IN  [i \in 1..Len(mine) |-> Project(mine[i], idx)]

\* the rows of one partition cut into files of at most max_rows_per_file rows
\* (0: no limit)
RECURSIVE FileChunks(_, _)
FileChunks(rows, max_rows_per_file) ==
    IF max_rows_per_file = 0 \/ Len(rows) <= max_rows_per_file THEN <<rows>>
    ELSE <<SubSeq(rows, 1, max_rows_per_file)>>
             \o FileChunks(Drop(rows, max_rows_per_file), max_rows_per_file)

\* basename_template.format(i=i)
BaseName(i) ==
    <<"p", "a", "r", "t", "-">> \o IntToStr(i) \o <<".", "p", "a", "r", "q", "u", "e", "t">>

MaxRowsPerFile(kwargs) ==
    IF "max_rows_per_file" \in DOMAIN kwargs THEN kwargs["max_rows_per_file"] ELSE 0

\* a variant of the file index that continues after the files a folder
\* already holds, so that no existing file is ever replaced
FileIndexAppending(existing, dir, i) ==
    LET used == {n \in 0..(Cardinality(existing) + i) : (dir \o <<"/">> \o BaseName(n)) \in existing}
    IN  CHOOSE n \in 0..(Cardinality(existing) + i) :
            Cardinality({m \in 0..n : m \notin used}) = i /\ n \notin used
\* the index of the i-th file written into a folder: the writer counts from 0
\* in every folder, whatever the folder holds
FileIndex(existing, dir, i) == i - 1

\* the files one call writes: path -> table
DatasetFiles(existing, table, base_dir, cols, kwargs) ==
    LET keys == KeysInOrder(table.schema, cols, table.rows, <<>>)
        idx == KeptCols(table.schema, cols, 1)
        dirOf(k) == base_dir \o <<"/">> \o HiveDir(table.schema, cols, keys[k])
        chunks(k) == FileChunks(PartitionRows(table, cols, keys[k]), MaxRowsPerFile(kwargs))
        slots == {<<k, i>> \in (1..Len(keys)) \X (1..Len(table.rows)) : i <= Len(chunks(k))}
        pathOf(s) == dirOf(s[1]) \o <<"/">> \o BaseName(FileIndex(existing, dirOf(s[1]), s[2]))
    IN  [p \in {pathOf(s) : s \in slots} |->
            LET s == CHOOSE t \in slots : pathOf(t) = p
            IN  [schema |-> Project(table.schema, idx), rows |-> chunks(s[1])[s[2]]]]

\* ds.write_dataset(table, base_dir, partitioning=cols, filesystem=fs, ...)
ds_write_dataset(fs, dk, ob, table, base_dir, cols, kwargs) ==
    LET new == DatasetFiles(DOMAIN FsFiles(fs, dk, ob), table, base_dir, cols, kwargs)
        dirs == UNION {DirChain(OsPathDirname(p)) : p \in DOMAIN new} \cup DirChain(base_dir)
    IN  IF fs = "S3FileSystem" THEN Store(dk, new @@ ob, None)
        ELSE IF \E d \in dirs : d \in DOMAIN dk.files THEN Store(dk, ob, "NotADirectoryError")
        ELSE IF \E p \in DOMAIN new : p \in dk.dirs THEN Store(dk, ob, "IsADirectoryError")
        ELSE Store([dirs |-> dk.dirs \cup dirs, files |-> new @@ dk.files], ob, None)

(***************************************************************************)
(* pyarrow.dataset.dataset(path, filesystem=fs, format="parquet",          *)
(* partitioning="hive") and its materialisation.                           *)
(***************************************************************************)
\* the "key=value" segments of a folder path, as <<key, value>> pairs
HivePairs(dir) ==
    LET segs == SelectSeq(Split(dir, "/"), LAMBDA g : Contains(g, <<"=">>) /\ g[1] # "=")
    IN  [i \in 1..Len(segs) |->
            LET parts == Split(segs[i], "=")
            IN  <<parts[1], Join(Tail(parts), "=")>>]

\* the fragments of the dataset: its files, sorted, each with the pairs its
\* folder encodes.  A file is its own dataset and its whole folder path is
\* inspected; below a directory only the path below that directory is.
Fragments(fs, dk, ob, path) ==
    LET isFile == FsFileType(fs, dk, ob, path) = "File"
        files == IF isFile THEN <<path>> ELSE SortPaths(FsFilesUnder(fs, dk, ob, path))
        rel(p) == IF isFile THEN p ELSE Drop(p, Len(path) + 1)
    IN  [i \in 1..Len(files) |->
            [path |-> files[i],
             pairs |-> HivePairs(OsPathDirname(rel(files[i]))),
             table |-> FsFiles(fs, dk, ob)[files[i]]]]

\* the partition fields discovered: the keys in the order they first occur
RECURSIVE PartitionKeys(_, _)
PartitionKeys(pairs, seen) ==
    IF pairs = <<>> THEN seen
    ELSE PartitionKeys(Tail(pairs),
                       IF \E i \in 1..Len(seen) : seen[i] = Head(pairs)[1] THEN seen
                       ELSE Append(seen, Head(pairs)[1]))

\* the text a fragment's folder gives a key, None when it gives none
PairText(pairs, key) ==
    IF \E i \in 1..Len(pairs) : pairs[i][1] = key
    THEN pairs[CHOOSE i \in 1..Len(pairs) : pairs[i][1] = key][2]
    ELSE None

\* the type inferred for a partition field: int32 when every value is a number
PartitionType(frags, key) ==
    IF \A i \in 1..Len(frags) : PairText(frags[i].pairs, key) = None \/ IsIntText(PairText(frags[i].pairs, key))
    THEN "int32" ELSE "string"

PartitionValue(text, atype) ==
    IF text = None THEN None ELSE IF atype = "int32" THEN StrToInt(text) ELSE text

\* Dataset.to_table(): the rows of every fragment, each with the values of
\* its folder appended
DatasetTable(frags) ==
    LET keys == PartitionKeys(Flatten([i \in 1..Len(frags) |-> frags[i].pairs]), <<>>)
        types == [j \in 1..Len(keys) |-> PartitionType(frags, keys[j])]
        extra(i) == [j \in 1..Len(keys) |-> PartitionValue(PairText(frags[i].pairs, keys[j]), types[j])]
        rowsOf(i) == [r \in 1..Len(frags[i].table.rows) |-> frags[i].table.rows[r] \o extra(i)]
    IN  [schema |-> (IF frags = <<>> THEN <<>> ELSE frags[1].table.schema)
                        \o [j \in 1..Len(keys) |-> <<keys[j], types[j]>>],
         rows |-> Flatten([i \in 1..Len(frags) |-> rowsOf(i)])]

Sdk(fn, path, fs) == [fn |-> fn, path |-> path, fs |-> fs]
Outcome(dk, ob, r, trace) == [disk |-> dk, objects |-> ob, ret |-> r, sdk |-> trace]

\* a variant of read_parquet that resolves every URI through get_arrow_path,
\* without the is_s3_path test of scan_parquet
read_parquet_unguarded(this, dk, ob, uri) ==
    LET target == get_arrow_path(this, uri)
    IN  IF target.kind = "raise" THEN Outcome(dk, ob, target, <<>>)
        ELSE Outcome(dk, ob, Returned(FromArrow(DatasetTable(Fragments(this.s3_fs, dk, ob, target.value)))),
                     <<Sdk("ds.dataset", target.value, this.s3_fs)>>)
\* Storage.scan_parquet followed by collect(): Storage.read_parquet
read_parquet(this, dk, ob, uri) ==
    IF is_s3_path(uri)
    THEN LET target == get_arrow_path(this, uri)
         IN  IF target.kind = "raise" THEN Outcome(dk, ob, target, <<>>)
             ELSE IF FsFileType(this.s3_fs, dk, ob, target.value) = "NotFound"
             THEN Outcome(dk, ob, Raised("FileNotFoundError", target.value),
                          <<Sdk("ds.dataset", target.value, this.s3_fs)>>)
             ELSE Outcome(dk, ob, Returned(FromArrow(DatasetTable(Fragments(this.s3_fs, dk, ob, target.value)))),
                          <<Sdk("ds.dataset", target.value, this.s3_fs)>>)
    ELSE IF uri \in DOMAIN dk.files
    THEN Outcome(dk, ob, Returned(FromArrow(dk.files[uri])), <<Sdk("pl.scan_parquet", uri, "LocalFileSystem")>>)
    ELSE Outcome(dk, ob, Raised("FileNotFoundError", uri), <<Sdk("pl.scan_parquet", uri, "LocalFileSystem")>>)

\* partition_cols as write_parquet normalises it: a str becomes a list of one
PartitionCols(partition_cols) ==
    IF partition_cols.type = "str" THEN <<partition_cols.value>>
    ELSE IF partition_cols.type = "NoneType" THEN <<>>
    ELSE partition_cols.value

Done(store, trace) ==
    Outcome(store.disk, store.objects,
            IF store.exc = None THEN Returned(None) ELSE Raised(store.exc, <<>>), trace)

\* the object-storage branch of write_parquet
write_parquet_s3(this, dk, ob, df, uri, partition_cols, kwargs) ==
    LET cols == PartitionCols(partition_cols)
        target == get_arrow_path(this, uri)
        table == ToArrow(df)
    IN  IF target.kind = "raise" THEN Outcome(dk, ob, target, <<>>)
        ELSE IF cols # <<>>
        THEN Done(ds_write_dataset(this.s3_fs, dk, ob, table, target.value, cols, kwargs),
                  <<Sdk("ds.write_dataset", target.value, this.s3_fs)>>)
        ELSE IF this.local_s3
        THEN LET made == os_makedirs(dk, ob, OsPathDirname(target.value))
             IN  IF made.exc # None
                 THEN Done(made, <<Sdk("os.makedirs", OsPathDirname(target.value), "LocalFileSystem")>>)
                 ELSE Done(pq_write_table(this.s3_fs, made.disk, made.objects, table, target.value),
                           <<Sdk("os.makedirs", OsPathDirname(target.value), "LocalFileSystem"),
                             Sdk("pq.write_table", target.value, this.s3_fs)>>)
        ELSE Done(pq_write_table(this.s3_fs, dk, ob, table, target.value),
                  <<Sdk("pq.write_table", target.value, this.s3_fs)>>)

\* Storage.write_parquet
write_parquet(this, dk, ob, df, uri, partition_cols, kwargs) ==
    IF ~is_s3_path(uri)
    THEN Done(df_write_parquet(dk, ob, df, uri), <<Sdk("DataFrame.write_parquet", uri, "LocalFileSystem")>>)
    ELSE write_parquet_s3(this, dk, ob, df, uri, partition_cols, kwargs)

(***************************************************************************)
(* Spec: read_parquet and write_parquet on a constructed Storage.          *)
(***************************************************************************)
K == <<"k">>
V == <<"v">>
FrameSchema == <<<<K, "Int64">>, <<V, "String">>>>
Frame(rows) == [schema |-> FrameSchema, rows |-> rows]
\* the DataFrames written: two rows of one key, one row of that key, one row
\* of another key
Frames ==
    {Frame(<<<<1, <<"x">>>>, <<1, <<"y">>>>>>),
     Frame(<<<<1, <<"z">>>>>>),
     Frame(<<<<2, <<"x">>>>>>)}

\* the URIs: an object, an object below a "p=1" folder, a local file
UriPlain == Scheme \o <<"b", "/", "t">>
UriHive == Scheme \o <<"b", "/", "p", "=", "1", "/", "t">>
UriLocal == <<"/", "l", "/", "t">>
Uris == {UriPlain, UriHive, UriLocal}

NoPartition == [type |-> "NoneType", value |-> None]
PartitionColsInputs ==
    {NoPartition, [type |-> "str", value |-> K], [type |-> "list", value |-> <<K>>],
     [type |-> "list", value |-> <<>>]}

\* the keyword arguments passed on to the writer: none, or one row per file
\* and per row group, which only ds.write_dataset accepts
NoKwargs == [n \in {} |-> 0]
OneRowPerFile == [n \in {"max_rows_per_file", "max_rows_per_group"} |-> 1]
KwargsInputs(uri, partition_cols) ==
    IF is_s3_path(uri) /\ PartitionCols(partition_cols) # <<>> THEN {NoKwargs, OneRowPerFile}
    ELSE {NoKwargs}

InitIO ==
    /\ self \in {NewStorage(l, DefaultLocalS3Dir) : l \in BOOLEAN}
    /\ environ = NoEnviron
    /\ disk = [dirs |-> DirChain(HOME) \cup DirChain(OsPathDirname(UriLocal)), files |-> NoFiles]
    /\ objects = NoFiles
    /\ call = NoCall
    /\ ret = NoRet
    /\ sdk = <<>>
    /\ view = NoView
    /\ before = NoBefore
    /\ nops = 0

WriteParquet(df, uri, partition_cols, kwargs) ==
    LET out == write_parquet(self, disk, objects, df, uri, partition_cols, kwargs)
    IN  /\ nops < MaxOps
        /\ nops' = nops + 1
        /\ before' = [self |-> self, disk |-> disk, objects |-> objects]
        /\ call' = [op |-> "write_parquet", df |-> df, uri |-> uri,
                    partition_cols |-> partition_cols, kwargs |-> kwargs]
        /\ disk' = out.disk
        /\ objects' = out.objects
        /\ ret' = out.ret
        /\ sdk' = out.sdk
        /\ UNCHANGED <<self, environ, view>>

ReadParquet(uri) ==
    LET out == read_parquet(self, disk, objects, uri)
    IN  /\ nops < MaxOps
        /\ nops' = nops + 1
        /\ before' = [self |-> self, disk |-> disk, objects |-> objects]
        /\ call' = [op |-> "read_parquet", df |-> None, uri |-> uri,
                    partition_cols |-> NoPartition, kwargs |-> NoKwargs]
        /\ disk' = out.disk
        /\ objects' = out.objects
        /\ ret' = out.ret
        /\ sdk' = out.sdk
        /\ UNCHANGED <<self, environ, view>>

NextIO ==
    \/ \E df \in Frames, uri \in Uris, pc \in PartitionColsInputs :
           \E kw \in KwargsInputs(uri, pc) : WriteParquet(df, uri, pc, kw)
    \/ \E uri \in Uris : ReadParquet(uri)

Spec == InitIO /\ [][NextIO]_vars

(***************************************************************************)
(* Claims about read_parquet and write_parquet.                            *)
(***************************************************************************)
Wrote == call.op = "write_parquet" /\ ret.kind = "return"
WroteS3 == Wrote /\ HasScheme(call.uri)
Partitioned == call.partition_cols.type # "NoneType" /\ call.partition_cols.value # <<>>
\* the path or key the URI of the last call resolves to
Target == get_arrow_path(self, call.uri).value
\* what read_parquet of the URI of the last call gives now
ReadBack == read_parquet(self, disk, objects, call.uri).ret

\* C4 (as claimed): with emulation, after write_parquet without partition
\* columns to any "s3://" URI, read_parquet of that URI returns the DataFrame
\* written: the same columns, types and rows; and a write whose parent
\* directory did not exist (nothing but a missing directory in its way)
\* succeeds.
C4_EmulationRoundTrip ==
    /\ (WroteS3 /\ self.local_s3 /\ ~Partitioned) => ReadBack = Returned(call.df)
    /\ (/\ call.op = "write_parquet"
        /\ HasScheme(call.uri)
        /\ self.local_s3
        /\ ~Partitioned
        /\ OsPathDirname(Target) \notin before.disk.dirs
        /\ Target \notin before.disk.dirs
        /\ \A d \in DirChain(OsPathDirname(Target)) : d \notin DOMAIN before.disk.files)
       => ret.kind = "return"

\* the filesystem the Storage writes to, as the last operation found it
FilesBefore == FsFiles(self.s3_fs, before.disk, before.objects)
FilesNow == FsFiles(self.s3_fs, disk, objects)
UnderTarget(files) == {p \in DOMAIN files : StartsWith(p, Target \o <<"/">>)}

\* the target held no data when the last operation began
TargetWasEmpty == Target \notin DOMAIN FilesBefore /\ UnderTarget(FilesBefore) = {}

HasColumn(t, name) == \E i \in 1..Len(t.schema) : t.schema[i][1] = name

\* the fragment that holds the n-th row read
RECURSIVE FragmentOfRow(_, _, _)
FragmentOfRow(frags, n, i) ==
    IF n <= Len(frags[i].table.rows) THEN i
    ELSE FragmentOfRow(frags, n - Len(frags[i].table.rows), i + 1)

Occurrences(seq, x) == Cardinality({i \in 1..Len(seq) : seq[i] = x})
SameBag(a, b) ==
    /\ Len(a) = Len(b)
    /\ \A i \in 1..Len(a) : Occurrences(a, a[i]) = Occurrences(b, a[i])

\* reading the target back: as many rows as written, each with the value of
\* the folder that holds it in the partition column, and the rows those written
PartitionedReadBackMatches ==
    LET frags == Fragments(self.s3_fs, disk, objects, Target)
        col == PartitionCols(call.partition_cols)[1]
    IN  /\ ReadBack.kind = "return"
        /\ Len(ReadBack.value.rows) = Len(call.df.rows)
        /\ HasColumn(ReadBack.value, col)
        /\ \A n \in 1..Len(ReadBack.value.rows) :
               LET folder == OsPathDirname(frags[FragmentOfRow(frags, n, 1)].path)
                   mine == ReadBack.value.rows[n][ColIndex(ReadBack.value.schema, col)]
               IN  EndsWith(folder, <<"/">> \o col \o <<"=">> \o IntToStr(mine))
        /\ SameBag([n \in 1..Len(ReadBack.value.rows) |->
                       [i \in 1..Len(call.df.schema) |->
                           ReadBack.value.rows[n][ColIndex(ReadBack.value.schema, call.df.schema[i][1])]]],
                   call.df.rows)

\* C5 (as claimed): after write_parquet with one partition column to an
\* "s3://" URI, read_parquet of the URI returns as many rows as the table
\* written has, each with the value of its "column=value" folder.
C5_PartitionedReadBack ==
    (WroteS3 /\ Partitioned) => PartitionedReadBackMatches

\* C5 (amended): the same, for a target that held no data before the write.
C5_PartitionedReadBackOfEmptyTarget ==
    (WroteS3 /\ Partitioned /\ TargetWasEmpty) => PartitionedReadBackMatches

C5_Witness ==
    /\ WroteS3
    /\ Partitioned
    /\ TargetWasEmpty
    /\ call.kwargs = OneRowPerFile
    /\ Cardinality(UnderTarget(FilesNow)) = 2
    /\ ReadBack.kind = "return"
    /\ Len(ReadBack.value.rows) = 2

\* the partition folders below the target, in a set of files
Folders(files) == {OsPathDirname(p) : p \in UnderTarget(files)}
\* the folders the last write had rows for
TouchedFolders ==
    LET t == ToArrow(call.df)
        cols == PartitionCols(call.partition_cols)
        keys == KeysInOrder(t.schema, cols, t.rows, <<>>)
    IN  {Target \o <<"/">> \o HiveDir(t.schema, cols, keys[i]) : i \in 1..Len(keys)}
\* the rows a folder holds, file after file
FolderRows(files, folder) ==
    LET paths == SortPaths({p \in DOMAIN files : OsPathDirname(p) = folder})
    IN  Flatten([i \in 1..Len(paths) |-> files[paths[i]].rows])
\* the rows of the last write that belong in a folder
WrittenRows(folder) ==
    LET t == ToArrow(call.df)
        cols == PartitionCols(call.partition_cols)
        keys == KeysInOrder(t.schema, cols, t.rows, <<>>)
        i == CHOOSE j \in 1..Len(keys) : Target \o <<"/">> \o HiveDir(t.schema, cols, keys[j]) = folder
    IN  PartitionRows(t, cols, keys[i])

\* C6 (as claimed): a partitioned write over a target that holds data leaves
\* every partition it has no rows for with the files and rows it had, and
\* leaves in every partition it has rows for exactly those rows.
C6_OverwritesTouchedPartitions ==
    (WroteS3 /\ Partitioned) =>
        /\ \A f \in Folders(FilesBefore) \ TouchedFolders :
               \A p \in DOMAIN FilesBefore :
                   OsPathDirname(p) = f => (p \in DOMAIN FilesNow /\ FilesNow[p] = FilesBefore[p])
        /\ \A f \in Folders(FilesNow) \ TouchedFolders :
               \A p \in DOMAIN FilesNow : OsPathDirname(p) = f => p \in DOMAIN FilesBefore
        /\ \A f \in TouchedFolders : FolderRows(FilesNow, f) = WrittenRows(f)

\* C7: repeating the write_parquet just made (the same table, URI, partition
\* columns and keyword arguments) changes nothing in the storage; read_parquet
\* leaves the disk, the object store and the Storage as it found them, and
\* repeated at once returns the same.
C7_RepeatIsSafe ==
    /\ call.op = "write_parquet" =>
           LET again == write_parquet(self, disk, objects, call.df, call.uri, call.partition_cols, call.kwargs)
           IN  /\ again.disk = disk
               /\ again.objects = objects
               /\ again.ret = ret
    /\ call.op = "read_parquet" =>
           /\ disk = before.disk
           /\ objects = before.objects
           /\ self = before.self
           /\ ReadBack = ret

C7_Witness ==
    /\ Wrote
    /\ HasScheme(call.uri)
    /\ Partitioned
    /\ ~TargetWasEmpty
    /\ UnderTarget(FilesNow) # UnderTarget(FilesBefore)

\* C10: read_parquet and write_parquet never raise get_arrow_path's
\* ValueError; a URI that does not start with "s3://" goes unchanged to the
\* local reader or writer and to nothing else, the object store stays as it
\* was, and a write of it puts one file at that path and changes nothing
\* else, partition columns or not.
C10_LocalPathsPassThrough ==
    /\ call.op \in {"read_parquet", "write_parquet"} => ~(ret.kind = "raise" /\ ret.exc = "ValueError")
    /\ (call.op \in {"read_parquet", "write_parquet"} /\ ~HasScheme(call.uri)) =>
           /\ Len(sdk) = 1
           /\ sdk[1].path = call.uri
           /\ sdk[1].fs = "LocalFileSystem"
           /\ sdk[1].fn = (IF call.op = "read_parquet" THEN "pl.scan_parquet" ELSE "DataFrame.write_parquet")
           /\ objects = before.objects
           /\ disk.dirs = before.disk.dirs
           /\ \A p \in (DOMAIN disk.files \cup DOMAIN before.disk.files) \ {call.uri} :
                  /\ p \in DOMAIN disk.files
                  /\ p \in DOMAIN before.disk.files
                  /\ disk.files[p] = before.disk.files[p]
    /\ (Wrote /\ ~HasScheme(call.uri)) =>
           /\ call.uri \in DOMAIN disk.files
           /\ disk.files[call.uri] = ToArrow(call.df)
    /\ (call.op = "read_parquet" /\ ~HasScheme(call.uri)) => disk = before.disk

C10_Witness ==
    /\ Wrote
    /\ ~HasScheme(call.uri)
    /\ Partitioned
    /\ call.uri \in DOMAIN disk.files
    /\ call.uri \notin DOMAIN before.disk.files

(***************************************************************************)
(* SpecEnv: Storage.from_env.                                              *)
(***************************************************************************)
\* a variant of os.environ.get that also replaces an empty value by the
\* default (os.environ.get(name) or default)
os_environ_get_or(env, name, default) == IF env[name] \in {None, ""} THEN default ELSE env[name]
\* os.environ.get(name, default)
os_environ_get(env, name, default) == IF env[name] = None THEN default ELSE env[name]

\* Storage.from_env(local_s3=...): the fields of the Storage it constructs
from_env(env, local_s3) ==
    StorageFields(os_environ_get(env, "AWS_PROFILE", None),
                  os_environ_get(env, "AWS_ACCESS_KEY_ID", None),
                  os_environ_get(env, "AWS_SECRET_ACCESS_KEY", None),
                  os_environ_get(env, "AWS_ENDPOINT_URL", None),
                  os_environ_get(env, "AWS_DEFAULT_REGION", DefaultRegion),
                  TRUE, local_s3, DefaultLocalS3Dir)

\* the values a variable may hold: unset, or a value of its own; the region
\* may also be set to the empty string
EnvValues(n) ==
    CASE n = "AWS_PROFILE" -> {None, "dev"}
      [] n = "AWS_ACCESS_KEY_ID" -> {None, "AKIA"}
      [] n = "AWS_SECRET_ACCESS_KEY" -> {None, "hunter2"}
      [] n = "AWS_ENDPOINT_URL" -> {None, "http://localhost:9000"}
      [] OTHER -> {None, "", "eu-west-1"}
Environs == {e \in [EnvNames -> {None, "", "dev", "AKIA", "hunter2", "http://localhost:9000", "eu-west-1"}] :
                \A n \in EnvNames : e[n] \in EnvValues(n)}

NoStorage == [local_s3 |-> None]

InitEnv ==
    /\ self = NoStorage
    /\ environ \in Environs
    /\ disk = [dirs |-> {<<"/">>}, files |-> NoFiles]
    /\ objects = NoFiles
    /\ call = NoCall
    /\ ret = NoRet
    /\ sdk = <<>>
    /\ view = NoView
    /\ before = NoBefore
    /\ nops = 0

\* Storage.from_env.  _init_local_s3 needs nothing; _init_s3 builds the SDK
\* session and resolves credentials, which the SDK may refuse: sdk_ok is
\* whether it does not.
FromEnv(local_s3, sdk_ok) ==
    /\ call' = [op |-> "from_env", local_s3 |-> local_s3]
    /\ IF local_s3 \/ sdk_ok
       THEN /\ self' = from_env(environ, local_s3)
            /\ ret' = Returned("Storage")
            /\ sdk' = <<IF local_s3 THEN "LocalS3Client" ELSE "boto3.Session">>
       ELSE /\ self' = NoStorage
            /\ ret' = Raised("SDKError", <<>>)
            /\ sdk' = <<"boto3.Session">>
    /\ UNCHANGED <<environ, disk, objects, view, before, nops>>

NextEnv == \E local_s3 \in BOOLEAN, sdk_ok \in BOOLEAN : FromEnv(local_s3, sdk_ok)

SpecEnv == InitEnv /\ [][NextEnv]_vars

\* C8: the Storage from_env builds has the profile name, access key, secret
\* key and endpoint URL of AWS_PROFILE, AWS_ACCESS_KEY_ID,
\* AWS_SECRET_ACCESS_KEY and AWS_ENDPOINT_URL (None when unset) and the region
\* of AWS_DEFAULT_REGION, "us-east-1" when that is unset.
C8_FromEnvMatchesEnvironment ==
    (call.op = "from_env" /\ ret.kind = "return") =>
        /\ self.profile_name = environ["AWS_PROFILE"]
        /\ self.access_key = environ["AWS_ACCESS_KEY_ID"]
        /\ self.secret_key = environ["AWS_SECRET_ACCESS_KEY"]
        /\ self.endpoint_url = environ["AWS_ENDPOINT_URL"]
        /\ environ["AWS_DEFAULT_REGION"] # None => self.region_name = environ["AWS_DEFAULT_REGION"]
        /\ environ["AWS_DEFAULT_REGION"] = None => self.region_name = "us-east-1"

C8_Witness ==
    /\ call.op = "from_env"
    /\ ret.kind = "return"
    /\ ~self.local_s3
    /\ environ["AWS_DEFAULT_REGION"] = None
    /\ environ["AWS_PROFILE"] = "dev"
    /\ environ["AWS_ACCESS_KEY_ID"] = None
    /\ self.region_name = "us-east-1"
    /\ self.profile_name = "dev"

(***************************************************************************)
(* SpecView: the dashboard's classification of columns.  A DataFrame is    *)
(* its schema here, a sequence of <<name, type>> with distinct names.      *)
(***************************************************************************)
\* polars DataType.is_numeric, membership in [pl.String, pl.Boolean], and
\* DataType.is_temporal
IsNumeric(dtype) == dtype \in {"Int8", "Int16", "Int32", "Int64", "UInt8", "UInt16", "UInt32", "UInt64", "Float32", "Float64", "Decimal"}
IsStringOrBoolean(dtype) == dtype \in {"String", "Boolean"}
IsTemporal(dtype) == dtype \in {"Date", "Datetime", "Duration", "Time"}

\* the keys of ColumnPlot.update_source's groups: a pictogram and a label
GroupKeys ==
    <<<<"1234", "Numerical">>, <<"abcd", "String / Boolean">>, <<"calendar", "Temporal">>, <<"package", "Others">>>>

\* the group ColumnPlot.update_source appends a column of this type to
GroupIndex(dtype) ==
    IF IsNumeric(dtype) THEN 1
    ELSE IF IsStringOrBoolean(dtype) THEN 2
    ELSE IF IsTemporal(dtype) THEN 3
    ELSE 4

\* ColumnPlot.update_source: column_groups, the empty groups left out
update_source(schema) ==
    LET groups == [g \in 1..4 |->
                      <<GroupKeys[g],
                        ColNames(SelectSeq(schema, LAMBDA c : GroupIndex(c[2]) = g))>>]
    IN  SelectSeq(groups, LAMBDA g : g[2] # <<>>)

\* a variant of the category test that leaves pl.Boolean out of "String"
FilterCategoryStringOnly(dtype) ==
    IF IsNumeric(dtype) THEN "Numerical"
    ELSE IF dtype = "String" THEN "String / Boolean"
    ELSE IF IsTemporal(dtype) THEN "Temporal"
    ELSE "Others"
\* the category DataExplorer._get_filtered_plots gives a column of this type
FilterCategory(dtype) ==
    IF IsNumeric(dtype) THEN "Numerical"
    ELSE IF IsStringOrBoolean(dtype) THEN "String / Boolean"
    ELSE IF IsTemporal(dtype) THEN "Temporal"
    ELSE "Others"

\* str.lower, for the letters column names are made of
Lower(s) == [i \in 1..Len(s) |-> IF s[i] = "A" THEN "a" ELSE IF s[i] = "B" THEN "b" ELSE s[i]]

\* DataExplorer._update_all_plots: one ColumnPlot per column
update_all_plots(schema) ==
    [i \in 1..Len(schema) |-> [column |-> schema[i][1], column_groups |-> update_source(schema)]]

\* DataExplorer._get_filtered_plots: the plots shown
get_filtered_plots(schema, plots, search_term, type_filter) ==
    LET found == IF search_term # <<>>
                 THEN SelectSeq(plots, LAMBDA p : Contains(Lower(p.column), Lower(search_term)))
                 ELSE plots
    IN  IF type_filter # {}
        THEN SelectSeq(found, LAMBDA p : FilterCategory(ColType(schema, p.column)) \in type_filter)
        ELSE found

ColumnNameInputs == {<<"a">>, <<"A", "b">>, <<"c">>}
DTypeInputs == {"Int64", "Decimal", "String", "Boolean", "Datetime", "List"}
SchemaInputs ==
    {s \in UNION {[1..n -> ColumnNameInputs \X DTypeInputs] : n \in 1..MaxCols} :
        \A i, j \in 1..Len(s) : i # j => s[i][1] # s[j][1]}
SearchInputs == {<<>>, <<"A">>}
Categories == {"Numerical", "String / Boolean", "Temporal", "Others"}

Explorer(schema, search_term, type_filter) ==
    [df |-> schema,
     plots |-> update_all_plots(schema),
     search_term |-> search_term,
     type_filter |-> type_filter,
     shown |-> get_filtered_plots(schema, update_all_plots(schema), search_term, type_filter)]

InitView ==
    /\ self = NoStorage
    /\ environ = NoEnviron
    /\ disk = [dirs |-> {<<"/">>}, files |-> NoFiles]
    /\ objects = NoFiles
    /\ call = NoCall
    /\ ret = NoRet
    /\ sdk = <<>>
    /\ view \in {Explorer(s, <<>>, {}) : s \in SchemaInputs}
    /\ before = NoBefore
    /\ nops = 0

\* the search box changes search_term; the plots shown are computed again
SetSearchTerm(term) ==
    /\ view' = [view EXCEPT !.search_term = term,
                            !.shown = get_filtered_plots(view.df, view.plots, term, view.type_filter)]
    /\ UNCHANGED <<self, environ, disk, objects, call, ret, sdk, before, nops>>

\* the type buttons change type_filter; the plots shown are computed again
SetTypeFilter(types) ==
    /\ view' = [view EXCEPT !.type_filter = types,
                            !.shown = get_filtered_plots(view.df, view.plots, view.search_term, types)]
    /\ UNCHANGED <<self, environ, disk, objects, call, ret, sdk, before, nops>>

NextView ==
    \/ \E term \in SearchInputs : SetSearchTerm(term)
    \/ \E types \in SUBSET Categories : SetTypeFilter(types)

SpecView == InitView /\ [][NextView]_vars

\* the groups of a plot that list a column, once per listing
GroupsListing(plot, col) ==
    {<<g, i>> \in (1..Len(plot.column_groups)) \X (1..Len(view.df)) :
        /\ i <= Len(plot.column_groups[g][2])
        /\ plot.column_groups[g][2][i] = col}
\* the label of the one group of a plot that lists a column
GroupLabel(plot, col) ==
    plot.column_groups[(CHOOSE s \in GroupsListing(plot, col) : TRUE)[1]][1][2]

\* C9: in every ColumnPlot, each column of the table is listed once, in one
\* group, no group is empty, the group is one of the four categories and
\* depends on the column's type alone; and the category the type filter gives
\* a column is the label of that group, so that the plots shown under a type
\* filter are those whose column's group is selected.
C9_ColumnsClassifiedOnce ==
    \A n \in 1..Len(view.plots) :
        LET plot == view.plots[n]
        IN  /\ \A g \in 1..Len(plot.column_groups) : plot.column_groups[g][2] # <<>>
            /\ \A g \in 1..Len(plot.column_groups) :
                   \A i \in 1..Len(plot.column_groups[g][2]) :
                       \E c \in 1..Len(view.df) : view.df[c][1] = plot.column_groups[g][2][i]
            /\ \A c \in 1..Len(view.df) :
                   /\ Cardinality(GroupsListing(plot, view.df[c][1])) = 1
                   /\ GroupLabel(plot, view.df[c][1]) \in Categories
                   /\ GroupLabel(plot, view.df[c][1]) = FilterCategory(view.df[c][2])
                   /\ \A d \in 1..Len(view.df) :
                          view.df[c][2] = view.df[d][2] =>
                              GroupLabel(plot, view.df[c][1]) = GroupLabel(plot, view.df[d][1])
            /\ view.type_filter # {} =>
                   ((\E i \in 1..Len(view.shown) : view.shown[i] = plot)
                        <=> /\ GroupLabel(plot, plot.column) \in view.type_filter
                            /\ (view.search_term = <<>>
                                  \/ Contains(Lower(plot.column), Lower(view.search_term))))

C9_Witness ==
    /\ Len(view.df) = 2
    /\ view.df[1][2] = "Boolean"
    /\ view.df[2][2] = "Decimal"
    /\ view.type_filter = {"String / Boolean"}
    /\ Len(view.shown) = 1
    /\ view.shown[1].column = view.df[1][1]
    /\ Len(view.plots[1].column_groups) = 2

============================================================================
